---------------------------- MODULE Spec2Model ----------------------------
(***************************************************************************)
(* A model of the pricing engine (src/pricing_engine.py) and of the data   *)
(* collector (src/pricing_data_collector.py).                              *)
(*                                                                         *)
(* Numbers.  A Python float is modelled as a record: a finite value is a   *)
(* fixed-point integer counted in ticks of 0.0001 currency units, and NaN, *)
(* +inf and -inf are values of their own.  Inputs lie on the grid of       *)
(* 0.001 (10 ticks), so that the 10% markdown of an input is a whole       *)
(* number of ticks.  round(x, 2) rounds to 100 ticks; at a decimal tie     *)
(* (x.xx5) the binary double nearest to the decimal value lies on one side *)
(* of the tie or the other, so the direction is an input of the rounding   *)
(* (the parameter up), drawn by the action that rounds.                    *)
(*                                                                         *)
(* Line 32 of src/pricing_engine.py reads "self._ engineer_features(data)";*)
(* the model reads it as the call self._engineer_features(data).           *)
(***************************************************************************)
EXTENDS Integers, Sequences, FiniteSets, TLC

VARIABLES
    config,           \* PricingEngine.config, set by the constructor
    predicted_price,  \* argument of the last _adjust_for_business_rules call
    adjusted_price,   \* what that call returned
    data,             \* argument of the last _engineer_features call
    features,         \* what that call returned
    cpc,              \* PricingDataCollector.collect: the statement it is at
    fetched,          \* collect's local dict "data": source -> fetch result
    response,         \* history: source -> what its HTTP request came to
    filtered_data,    \* what collect returned
    thread            \* the callers of the engine: operation, position, locals

vars == <<config, predicted_price, adjusted_price, data, features,
          cpc, fetched, response, filtered_data, thread>>

-----------------------------------------------------------------------------
(* Bounds of the model. *)

\* Inputs lie within MaxOffset thousandths of a base amount.
MaxOffset == 5
\* The longest competitor price list.
MaxPrices == 2
\* The number of concurrent callers of one engine.
NumThreads == 2

\* The fixed-point scale: ticks per thousandth, per cent and per currency unit.
Tick == [mill |-> 10, cent |-> 100, unit |-> 10000]

-----------------------------------------------------------------------------
(* Python values. *)

Fin(v) == [kind |-> "fin", v |-> v]
NaN == [kind |-> "nan", v |-> 0]
PosInf == [kind |-> "inf", v |-> 1]
NegInf == [kind |-> "inf", v |-> -1]
None == [kind |-> "none", v |-> 0]

IsFinite(x) == x.kind = "fin"

\* Python's float comparison a < b: false whenever either side is NaN.
Lt(a, b) ==
    /\ a.kind # "nan"
    /\ b.kind # "nan"
    /\ \/ a.kind = "fin" /\ b.kind = "fin" /\ a.v < b.v
       \/ a.kind = "fin" /\ b = PosInf
       \/ a = NegInf /\ b.kind = "fin"
       \/ a = NegInf /\ b = PosInf

\* Python's a <= b.
Le(a, b) == Lt(a, b) \/ (a.kind # "nan" /\ a = b)

\* Python's builtin min(a, b): the first argument unless the second is smaller.
PyMin(a, b) == IF Lt(b, a) THEN b ELSE a

\* Python's builtin max(a, b): the first argument unless the second is larger.
PyMax(a, b) == IF Lt(a, b) THEN b ELSE a

\* x * (num / den) for a positive factor; exact on the input grid.
Scale(x, num, den) == IF IsFinite(x) THEN Fin((x.v * num) \div den) ELSE x

\* round(x, 2): to the nearest cent; NaN and the infinities are returned as
\* they are.  up is the side a decimal tie falls to.
Round2(x, up) ==
    IF ~IsFinite(x) THEN x
    ELSE LET q == x.v \div Tick.cent
             r == x.v % Tick.cent
         IN  IF r * 2 < Tick.cent THEN Fin(q * Tick.cent)
             ELSE IF r * 2 > Tick.cent THEN Fin((q + 1) * Tick.cent)
             ELSE IF up THEN Fin((q + 1) * Tick.cent)
             ELSE Fin(q * Tick.cent)

\* dict.get(key, default)
DictGet(d, key, default) == IF key \in DOMAIN d THEN d[key] ELSE default

\* The empty dict.
EmptyDict == [k \in {} |-> 0]

-----------------------------------------------------------------------------
(* PricingEngine._adjust_for_business_rules *)

\* discount = 0.1, in percent
DiscountPct == 10

ClampSwapped(p, lo, hi) == PyMin(PyMax(p, lo), hi)

\* clamped_price = max(min(predicted_price, max_price), min_price)
Clamp(p, lo, hi) == PyMax(PyMin(p, hi), lo)

MinPrice(cfg) == DictGet(cfg, "min_price", Fin(0))
MaxPrice(cfg) == DictGet(cfg, "max_price", PosInf)
\* self.config.get('seasonal_discount') as a condition: absent is None, falsy.
SeasonalDiscount(cfg) == DictGet(cfg, "seasonal_discount", FALSE)

\* clamped_price *= (1 - discount)
Discounted(x) == Scale(x, 100 - DiscountPct, 100)

AdjustDiscountBeforeClamp(cfg, p, up) ==
    LET d == IF SeasonalDiscount(cfg) THEN Discounted(p) ELSE p
    IN  Round2(Clamp(d, MinPrice(cfg), MaxPrice(cfg)), up)

AdjustForBusinessRules(cfg, p, up) ==
    LET clamped_price == Clamp(p, MinPrice(cfg), MaxPrice(cfg))
        discounted == IF SeasonalDiscount(cfg) THEN Discounted(clamped_price)
                      ELSE clamped_price
    IN  Round2(discounted, up)

\* The amounts near the base amounts (in currency units).
Grid(bases) ==
    {Fin(b * Tick.unit + o * Tick.mill) : b \in bases, o \in (-MaxOffset)..MaxOffset}

\* What a model may predict: amounts around 0, 10, 100 and 200, and the
\* non-finite floats.
PredictedPrices == Grid({0, 10, 100, 200}) \cup {NaN, PosInf, NegInf}

\* The configured bounds.
BoundPrices == Grid({0, 10, 100})

ConfigKeys == {"min_price", "max_price", "seasonal_discount"}

ConfigOf(keys, lo, hi, sd) ==
    [k \in keys |-> CASE k = "min_price" -> lo
                      [] k = "max_price" -> hi
                      [] OTHER -> sd]

\* Every config dict over the recognised keys, each key present or absent.
Configs ==
    {ConfigOf(keys, lo, hi, sd) :
        keys \in SUBSET ConfigKeys, lo \in BoundPrices, hi \in BoundPrices,
        sd \in BOOLEAN}

-----------------------------------------------------------------------------
(* PricingEngine._engineer_features *)

Sections == {"market", "customer", "competitor"}

\* Python's truth value of data.get(key): None (absent) and {} are falsy.
Truthy(d, key) == key \in DOMAIN d /\ DOMAIN d[key] # {}

\* if data.get('market'): market_demand, economic_indicator
MarketFeatures(d) ==
    IF Truthy(d, "market")
    THEN [market_demand |-> DictGet(d["market"], "demand", 0),
          economic_indicator |-> DictGet(d["market"], "economic_indicator", 0)]
    ELSE EmptyDict

\* if data.get('customer'): customer_preference, seasonal_pattern
CustomerFeatures(d) ==
    IF Truthy(d, "customer")
    THEN [customer_preference |-> DictGet(d["customer"], "preference_score", 0),
          seasonal_pattern |-> DictGet(d["customer"], "seasonal_patterns", EmptyDict)]
    ELSE EmptyDict

\* if data.get('competitor'): competitor_price_avg, competitor_count
CompetitorFeatures(d) ==
    IF Truthy(d, "competitor")
    THEN [competitor_price_avg |-> DictGet(d["competitor"], "avg_price", 0),
          competitor_count |-> Len(DictGet(d["competitor"], "prices", <<>>))]
    ELSE EmptyDict

EngineerFeatures(d) ==
    MarketFeatures(d) @@ CustomerFeatures(d) @@ CompetitorFeatures(d)

\* The dicts over the keys of a section, each key present or absent.
SubDicts(full) == {[k \in keys |-> full[k]] : keys \in SUBSET DOMAIN full}

MarketSections == SubDicts([demand |-> 80, economic_indicator |-> 3])

CustomerSections ==
    SubDicts([preference_score |-> 7, seasonal_patterns |-> [summer |-> 2]])
    \cup {[seasonal_patterns |-> EmptyDict]}

PriceLists == UNION {[1..n -> {48, 52}] : n \in 0..MaxPrices}

CompetitorSections ==
    UNION {SubDicts([avg_price |-> 50, prices |-> ps]) : ps \in PriceLists}

SectionValues(k) ==
    CASE k = "market" -> MarketSections
      [] k = "customer" -> CustomerSections
      [] OTHER -> CompetitorSections

\* The raw data bundles: each section absent, or a mapping (which may be empty).
Bundles ==
    UNION {[keys -> UNION {SectionValues(k) : k \in keys}] : keys \in SUBSET Sections}

WellFormed(d) == \A k \in DOMAIN d : d[k] \in SectionValues(k)

RawDataBundles == {d \in Bundles : WellFormed(d)}

-----------------------------------------------------------------------------
(* PricingDataCollector *)

\* What raises inside a fetch's try block: requests.get or raise_for_status
\* (RequestException), response.json() (ValueError), a missing key of
\* data_sources or api_keys (KeyError).
FetchExceptions == {"RequestException", "ValueError", "KeyError"}

\* What a request comes to: an exception, or a JSON body that is a mapping.
Responses(k) ==
    {[exc |-> "none", body |-> b] : b \in SectionValues(k)}
    \cup {[exc |-> e, body |-> EmptyDict] : e \in FetchExceptions}

\* fetch_market_data, fetch_customer_behavior, fetch_competitive_data:
\* return response.json(), or log and return None on any Exception.
FetchResult(r) == IF r.exc # "none" THEN None ELSE r.body

FilterFalsy(d) == [k \in {j \in DOMAIN d : d[j] # None /\ DOMAIN d[j] # {}} |-> d[k]]

\* {k: v for k, v in data.items() if v is not None}
FilterNone(d) == [k \in {j \in DOMAIN d : d[j] # None} |-> d[k]]

\* One entry of collect's dict display: data[k] = self.fetch_...()
Fetch(k, next) ==
    /\ cpc = k
    /\ \E r \in Responses(k) :
          /\ response' = (k :> r) @@ response
          /\ fetched' = (k :> FetchResult(r)) @@ fetched
    /\ cpc' = next
    /\ UNCHANGED <<config, predicted_price, adjusted_price, data, features,
                   filtered_data, thread>>

FetchMarketData == Fetch("market", "customer")
FetchCustomerBehavior == Fetch("customer", "competitor")
FetchCompetitiveData == Fetch("competitor", "filter")

\* filtered_data = {...}; return filtered_data
CollectReturn ==
    /\ cpc = "filter"
    /\ filtered_data' = FilterNone(fetched)
    /\ cpc' = "done"
    /\ UNCHANGED <<config, predicted_price, adjusted_price, data, features,
                   fetched, response, thread>>

-----------------------------------------------------------------------------
(* PricingEngine.calculate_optimal_price and update_model, called by        *)
(* NumThreads callers of one engine.  model.predict and model.train are    *)
(* calls into the model, each in progress from its call to its return or   *)
(* raise.                                                                  *)

Threads == 1..NumThreads

IdleThread ==
    [op |-> "idle", pc |-> "idle", features |-> None, predicted_price |-> None,
     result |-> None, logged |-> FALSE, update_failed |-> FALSE]

\* The data a pricing request is called with.
EngineBundles ==
    {EmptyDict,
     [market |-> [demand |-> 80],
      competitor |-> [avg_price |-> 50, prices |-> <<48, 52>>]]}

\* What model.predict returns.
EnginePredictions ==
    {Fin(5 * Tick.unit), Fin(200 * Tick.unit), NaN, PosInf, NegInf}

\* The configs an engine is constructed with.
EngineConfigs ==
    {EmptyDict,
     [min_price |-> Fin(10 * Tick.unit), max_price |-> Fin(100 * Tick.unit),
      seasonal_discount |-> TRUE]}

Callable(t) == thread[t].pc \in {"idle", "returned"}

EngineUnchanged ==
    UNCHANGED <<config, predicted_price, adjusted_price, data, features,
                cpc, fetched, response, filtered_data>>

\* calculate_optimal_price(data) up to the call of self.model.predict(features)
CalculateOptimalPrice(t) ==
    /\ Callable(t)
    /\ \E d \in EngineBundles :
          thread' = [thread EXCEPT ![t] =
              [op |-> "calculate_optimal_price", pc |-> "predicting",
               features |-> EngineerFeatures(d), predicted_price |-> None,
               result |-> None, logged |-> FALSE,
               update_failed |-> thread[t].update_failed]]
    /\ EngineUnchanged

\* predict returns; the price is adjusted and returned
PredictReturns(t) ==
    /\ thread[t].pc = "predicting"
    /\ \E p \in EnginePredictions, up \in BOOLEAN :
          thread' = [thread EXCEPT ![t].predicted_price = p,
                                   ![t].result = AdjustForBusinessRules(config, p, up),
                                   ![t].pc = "returned"]
    /\ EngineUnchanged

\* predict raises: except Exception logs the error and returns None
PredictRaises(t) ==
    /\ thread[t].pc = "predicting"
    /\ thread' = [thread EXCEPT ![t].logged = TRUE,
                                ![t].result = None,
                                ![t].pc = "returned"]
    /\ EngineUnchanged

\* update_model(new_data) up to the call of self.model.train(new_data)
UpdateModel(t) ==
    /\ Callable(t)
    /\ thread' = [thread EXCEPT ![t] =
          [op |-> "update_model", pc |-> "training", features |-> None,
           predicted_price |-> None, result |-> None, logged |-> FALSE,
           update_failed |-> thread[t].update_failed]]
    /\ EngineUnchanged

\* train returns, and update_model returns None
TrainReturns(t) ==
    /\ thread[t].pc = "training"
    /\ thread' = [thread EXCEPT ![t].pc = "returned"]
    /\ EngineUnchanged

TrainFailurePropagates == "raised"

\* Where update_model is once train has raised: except Exception logs the
\* error and the method falls off its end.
AfterTrainFailure == "returned"

\* train raises
TrainRaises(t) ==
    /\ thread[t].pc = "training"
    /\ thread' = [thread EXCEPT ![t].logged = TRUE,
                                ![t].update_failed = TRUE,
                                ![t].pc = AfterTrainFailure]
    /\ EngineUnchanged

-----------------------------------------------------------------------------
(* The specifications. *)

Unused ==
    /\ predicted_price = None
    /\ adjusted_price = None
    /\ data = EmptyDict
    /\ features = None
    /\ cpc = "idle"
    /\ fetched = EmptyDict
    /\ response = EmptyDict
    /\ filtered_data = None
    /\ thread = [t \in Threads |-> IdleThread]

\* The engine: constructed with a config, then called by its callers.
Init ==
    /\ config \in EngineConfigs
    /\ Unused

Next ==
    \E t \in Threads :
        \/ CalculateOptimalPrice(t)
        \/ PredictReturns(t)
        \/ PredictRaises(t)
        \/ UpdateModel(t)
        \/ TrainReturns(t)
        \/ TrainRaises(t)

Spec == Init /\ [][Next]_vars

\* _adjust_for_business_rules alone, over every config and predicted price.
InitAdjust ==
    /\ config \in Configs
    /\ Unused

AdjustCall ==
    /\ adjusted_price = None
    /\ \E p \in PredictedPrices, up \in BOOLEAN :
          /\ predicted_price' = p
          /\ adjusted_price' = AdjustForBusinessRules(config, p, up)
    /\ UNCHANGED <<config, data, features, cpc, fetched, response,
                   filtered_data, thread>>

NextAdjust == AdjustCall

SpecAdjust == InitAdjust /\ [][NextAdjust]_vars

\* _engineer_features alone, over every raw data bundle.
InitFeatures ==
    /\ config = EmptyDict
    /\ predicted_price = None
    /\ adjusted_price = None
    /\ data \in RawDataBundles
    /\ features = None
    /\ cpc = "idle"
    /\ fetched = EmptyDict
    /\ response = EmptyDict
    /\ filtered_data = None
    /\ thread = [t \in Threads |-> IdleThread]

EngineerFeaturesCall ==
    /\ features = None
    /\ features' = EngineerFeatures(data)
    /\ UNCHANGED <<config, predicted_price, adjusted_price, data, cpc, fetched,
                   response, filtered_data, thread>>

NextFeatures == EngineerFeaturesCall

SpecFeatures == InitFeatures /\ [][NextFeatures]_vars

\* collect() of the data collector.
InitCollect ==
    /\ config = EmptyDict
    /\ predicted_price = None
    /\ adjusted_price = None
    /\ data = EmptyDict
    /\ features = None
    /\ cpc = "market"
    /\ fetched = EmptyDict
    /\ response = EmptyDict
    /\ filtered_data = None
    /\ thread = [t \in Threads |-> IdleThread]

NextCollect ==
    \/ FetchMarketData
    \/ FetchCustomerBehavior
    \/ FetchCompetitiveData
    \/ CollectReturn

SpecCollect == InitCollect /\ [][NextCollect]_vars

-----------------------------------------------------------------------------
(* The claims. *)

Adjusted == adjusted_price # None

Abs(n) == IF n < 0 THEN -n ELSE n

\* x is a whole number of cents within half a cent of target / scale ticks.
RoundedFrom(x, target, scale) ==
    /\ IsFinite(x)
    /\ x.v % Tick.cent = 0
    /\ 2 * Abs(scale * x.v - target) <= scale * Tick.cent

\* C1: with min_price <= max_price and seasonal_discount disabled, the
\* adjusted price satisfies min_price <= result <= max_price, for every
\* predicted price.  (SpecAdjust)
C1_BoundedWithoutDiscount ==
    (Adjusted /\ ~SeasonalDiscount(config) /\ Le(MinPrice(config), MaxPrice(config)))
        => /\ Le(MinPrice(config), adjusted_price)
           /\ Le(adjusted_price, MaxPrice(config))

\* C1: a result below min_price without any discount (0 clamped up to
\* 10.004 and rounded to 10.00).
C1_RoundedBelowMinPrice ==
    /\ config = [min_price |-> Fin(10 * Tick.unit + 4 * Tick.mill),
                 max_price |-> Fin(100 * Tick.unit)]
    /\ predicted_price = Fin(0)
    /\ adjusted_price = Fin(10 * Tick.unit)

\* C9: with min_price <= max_price (unconfigured bounds being 0 and +inf),
\* every adjusted price satisfies min_price <= price <= max_price, whether
\* seasonal_discount is enabled or not.  (SpecAdjust)
C9_AlwaysBounded ==
    (Adjusted /\ Le(MinPrice(config), MaxPrice(config)))
        => /\ Le(MinPrice(config), adjusted_price)
           /\ Le(adjusted_price, MaxPrice(config))

\* C4: with seasonal_discount enabled the result is the clamped price
\* max(min(p, max_price), min_price), marked down by 10% and then rounded to
\* cents (a non-finite clamped price is returned as it is); min_price 10,
\* max_price 100 and a predicted 200 give 90.00; and a price clamped up to a
\* min_price of at least one currency unit ends below min_price.  (SpecAdjust)
C4_DiscountAfterClamp ==
    (Adjusted /\ SeasonalDiscount(config)) =>
        LET lo == MinPrice(config)
            hi == MaxPrice(config)
            c == PyMax(PyMin(predicted_price, hi), lo)
        IN  /\ IsFinite(c) => RoundedFrom(adjusted_price, 9 * c.v, 10)
            /\ ~IsFinite(c) => adjusted_price = c
            /\ (/\ lo = Fin(10 * Tick.unit)
                /\ hi = Fin(100 * Tick.unit)
                /\ predicted_price = Fin(200 * Tick.unit))
                    => adjusted_price = Fin(90 * Tick.unit)
            /\ (Le(lo, hi) /\ Le(predicted_price, lo) /\ lo.v >= Tick.unit)
                    => Lt(adjusted_price, lo)

\* C4, witness: the scenario of the claim, 200 clamped to 100 and marked down
\* to 90.00.
C4_Witness ==
    /\ config = [min_price |-> Fin(10 * Tick.unit), max_price |-> Fin(100 * Tick.unit),
                 seasonal_discount |-> TRUE]
    /\ predicted_price = Fin(200 * Tick.unit)
    /\ adjusted_price = Fin(90 * Tick.unit)

\* C4: a discounted result below min_price (0 clamped up to 10, marked down
\* to 9.00).
C4_BelowMinPrice ==
    /\ config = [min_price |-> Fin(10 * Tick.unit), max_price |-> Fin(100 * Tick.unit),
                 seasonal_discount |-> TRUE]
    /\ predicted_price = Fin(0)
    /\ adjusted_price = Fin(9 * Tick.unit)

\* C10: with min_price > max_price and seasonal_discount disabled, the
\* adjustment returns min_price rounded to cents, for every finite predicted
\* price.  (SpecAdjust)
C10_MinPriceWins ==
    (/\ Adjusted
     /\ ~SeasonalDiscount(config)
     /\ Lt(MaxPrice(config), MinPrice(config))
     /\ IsFinite(predicted_price))
        => RoundedFrom(adjusted_price, MinPrice(config).v, 1)

\* C10, witness: min_price 100.004 above max_price 10, a predicted 200 and a
\* result of 100.00.
C10_Witness ==
    /\ config = [min_price |-> Fin(100 * Tick.unit + 4 * Tick.mill),
                 max_price |-> Fin(10 * Tick.unit)]
    /\ predicted_price = Fin(200 * Tick.unit)
    /\ adjusted_price = Fin(100 * Tick.unit)

FeatureKeys(k) ==
    CASE k = "market" -> {"market_demand", "economic_indicator"}
      [] k = "customer" -> {"customer_preference", "seasonal_pattern"}
      [] OTHER -> {"competitor_price_avg", "competitor_count"}

\* C3: the features of a section are in the result if and only if the section
\* is present in the bundle, and a present section that is an empty mapping
\* yields them with the defaults 0, {} and 0.  (SpecFeatures)
C3_FeaturesIffSectionPresent ==
    features # None =>
        /\ \A k \in Sections :
              IF k \in DOMAIN data
              THEN FeatureKeys(k) \subseteq DOMAIN features
              ELSE FeatureKeys(k) \cap DOMAIN features = {}
        /\ \A k \in DOMAIN data :
              data[k] = EmptyDict =>
                  \A f \in FeatureKeys(k) :
                      /\ f \in DOMAIN features
                      /\ features[f] = IF f = "seasonal_pattern" THEN EmptyDict ELSE 0

\* C6: collect() returns the mapping whose keys are the sources whose fetch
\* succeeded, each with the value fetched; every fetch has run, whatever the
\* others came to.  (SpecCollect)
C6_FilteredUnion ==
    cpc = "done" =>
        /\ DOMAIN response = Sections
        /\ DOMAIN filtered_data = {k \in Sections : response[k].exc = "none"}
        /\ \A k \in DOMAIN filtered_data : filtered_data[k] = response[k].body

\* C6, witness: the market fetch raised, the customer fetch returned an empty
\* mapping, and collect returned the customer and competitor entries.
C6_Witness ==
    /\ cpc = "done"
    /\ response["market"].exc = "RequestException"
    /\ response["customer"] = [exc |-> "none", body |-> EmptyDict]
    /\ response["competitor"].exc = "none"
    /\ DOMAIN filtered_data = {"customer", "competitor"}

Returned(t, op) == thread[t].op = op /\ thread[t].pc = "returned"

\* C2: a pricing request whose predict raised ends in a typed PricingError,
\* and no pricing request returns None.  (Spec)
C2_TypedErrorNeverNone ==
    \A t \in Threads :
        Returned(t, "calculate_optimal_price") =>
            /\ thread[t].result # None
            /\ thread[t].logged => thread[t].result.kind = "PricingError"

\* C5: a predicted price that is NaN or infinite ends in an
\* InvalidPriceError, and no pricing request returns NaN or an infinity.
\* (Spec)
C5_NonFiniteRejected ==
    \A t \in Threads :
        Returned(t, "calculate_optimal_price") =>
            /\ thread[t].result.kind \notin {"nan", "inf"}
            /\ thread[t].predicted_price.kind \in {"nan", "inf"}
                  => thread[t].result.kind = "InvalidPriceError"

\* C8: no predict of a pricing request is in progress while a train of a
\* model update is.  (Spec)
C8_TrainSerialized ==
    \A t, u \in Threads :
        ~(thread[t].pc = "predicting" /\ thread[u].pc = "training")

\* C7: no step changes the engine's config or lets an exception out of
\* update_model; the step in which train raises takes update_model to its
\* normal return and changes no other caller's request.  (Spec)
C7_UpdateFailureNonFatal ==
    [][/\ config' = config
       /\ \A t \in Threads :
             /\ thread'[t].pc # "raised"
             /\ (thread[t].pc = "training" /\ thread'[t].update_failed
                 /\ thread'[t] # thread[t])
                   => /\ thread'[t].pc = "returned"
                      /\ thread'[t].op = "update_model"
                      /\ \A u \in Threads \ {t} : thread'[u] = thread[u]]_vars

\* C7, witness: a caller whose update failed has afterwards got a price, while
\* another caller's pricing request was in flight.
C7_Witness ==
    \E t, u \in Threads :
        /\ thread[t].update_failed
        /\ Returned(t, "calculate_optimal_price")
        /\ IsFinite(thread[t].result)
        /\ thread[u].pc = "predicting"

=============================================================================
